---- MODULE Spec2Model ----
(***************************************************************************)
(* The checkpointed, rate-limit-aware collection loop of                   *)
(* Extraction/trends_scrapper_2023.py: the progress tracker                *)
(* (get_completed_cities), the unit fetcher (fetch_city_trends) and the    *)
(* run driver (the module-level main loop), with the durable store held    *)
(* as the lines of trends_checkpoint.csv.                                  *)
(***************************************************************************)
EXTENDS Integers, Sequences, FiniteSets, TLC

(***************************************************************************)
(* Bounds of the model.                                                    *)
(***************************************************************************)
\* the source answers "429" to at most this many leading attempts of a keyword
MaxRateLimited == 3
\* driver invocations in one behaviour
MaxRuns == 2
\* table rows of a store handed to the progress tracker on its own
MaxStoreRows == 3

(***************************************************************************)
(* 1. CONFIGURATION                                                        *)
(***************************************************************************)
\* A YEAR setting is held as the sequence of the integers it lists:
\* `YEAR = 2023` is <<2023>>, `YEAR = 2021, 2022, 2023, 2024` (a tuple) is
\* the sequence of the four.
YEAR_AS_COMMITTED == <<2021, 2022, 2023, 2024>>

\* The year settings of the model: the committed one and a single year.
YearSettings == {<<2023>>, YEAR_AS_COMMITTED}

\* SEARCH_TERMS, cut to its first two terms.
SEARCH_TERMS == <<"Fishing", "Bass Fishing">>

OUTPUT_COLUMNS ==
    <<"date", "latitude", "longitude", "country", "state", "search_count",
      "location", "geo_code", "search_term", "year">>

\* MAX_CITIES_PER_RUN (50 in the source), scaled to the catalog of the model.
MAX_CITIES_PER_RUN == 2

\* fetch_city_trends' default max_retries.
DEFAULT_MAX_RETRIES == 3

\* usa_cities.csv: a catalog of three entities with unique geo_codes.
df_cities ==
    << [geo_code |-> "US-AL-630", location_name |-> "Birmingham", country |-> "US",
        state_province |-> "AL", latitude |-> "33.52", longitude |-> "-86.8"],
       [geo_code |-> "US-NY-501", location_name |-> "New York", country |-> "US",
        state_province |-> "NY", latitude |-> "40.71", longitude |-> "-74.0"],
       [geo_code |-> "US-WA-819", location_name |-> "Seattle", country |-> "US",
        state_province |-> "WA", latitude |-> "47.6", longitude |-> "-122.33"] >>

(***************************************************************************)
(* Calendar arithmetic behind pd.date_range(..., freq='W-SUN') and the     *)
(* date column of the CSV. A date is its proleptic Gregorian ordinal       *)
(* (0001-01-01 is day 1, a Monday).                                        *)
(***************************************************************************)
IsLeap(y) == (y % 4 = 0 /\ y % 100 # 0) \/ y % 400 = 0

DaysInMonth(y, m) ==
    IF m = 2 THEN (IF IsLeap(y) THEN 29 ELSE 28)
    ELSE IF m \in {4, 6, 9, 11} THEN 30 ELSE 31

DaysBeforeYear(y) ==
    LET p == y - 1 IN p * 365 + (p \div 4) - (p \div 100) + (p \div 400)

RECURSIVE DaysBeforeMonth(_, _)
DaysBeforeMonth(y, m) ==
    IF m = 1 THEN 0 ELSE DaysBeforeMonth(y, m - 1) + DaysInMonth(y, m - 1)

Ordinal(y, m, d) == DaysBeforeYear(y) + DaysBeforeMonth(y, m) + d

\* Monday = 0 .. Sunday = 6
Weekday(n) == (n + 6) % 7

YearOf(n) ==
    CHOOSE y \in (n \div 366)..((n \div 365) + 1) :
        DaysBeforeYear(y) < n /\ n <= DaysBeforeYear(y + 1)

MonthOf(n) ==
    LET y == YearOf(n)
        k == n - DaysBeforeYear(y)
    IN  CHOOSE m \in 1..12 :
            DaysBeforeMonth(y, m) < k /\ k <= DaysBeforeMonth(y, m) + DaysInMonth(y, m)

DayOf(n) ==
    LET y == YearOf(n) IN n - DaysBeforeYear(y) - DaysBeforeMonth(y, MonthOf(n))

date_rangeOpenEnd(start, end) ==
    LET first == start + ((6 - Weekday(start)) % 7)
        n     == IF first >= end THEN 0 ELSE ((end - 1 - first) \div 7) + 1
    IN  [i \in 1..n |-> first + 7 * (i - 1)]

\* The Sundays from `start` to `end`, both included, in order.
date_range(start, end) ==
    LET first == start + ((6 - Weekday(start)) % 7)
        n     == IF first > end THEN 0 ELSE ((end - first) \div 7) + 1
    IN  [i \in 1..n |-> first + 7 * (i - 1)]

(***************************************************************************)
(* The external metric source. For one keyword it answers "429" to the     *)
(* first `limited` attempts and `settled` to every later one.              *)
(***************************************************************************)
Settled == {"data", "empty", "error"}

Scripts == [limited : 0..MaxRateLimited, settled : Settled]

\* what the source answers to the n-th attempt (n >= 1) of a keyword
Response(script, n) == IF n <= script.limited THEN "429" ELSE script.settled

\* interest_over_time() of a keyword with signal: one value per week of the year
InterestOverTime(dates) == [i \in 1..Len(dates) |-> [date |-> dates[i], value |-> 50]]

(***************************************************************************)
(* 3. fetch_city_trends                                                    *)
(***************************************************************************)
Event(op, term, secs) == [op |-> op, term |-> term, secs |-> secs]

Pow2FromZero(n) == 2 ^ (n - 1)

RECURSIVE Pow2(_)
Pow2(n) == IF n = 0 THEN 1 ELSE 2 * Pow2(n - 1)

\* the frame a successful attempt appends to all_data
KeywordFrame(term, resp, dates) ==
    IF resp = "empty"
    THEN [i \in 1..Len(dates) |->
            [date |-> dates[i], search_term |-> term, search_count |-> 0]]
    ELSE LET data == InterestOverTime(dates)
         IN  [i \in 1..Len(data) |->
                [date |-> data[i].date, search_term |-> term,
                 search_count |-> data[i].value]]

\* the `while retry_count < max_retries` loop of one keyword, from its n-th
\* attempt on: the frame appended to all_data (<<>> when none is) and the
\* requests and sleeps made
LoopContinuesOneShort(retry_count, max_retries) == retry_count < max_retries - 1

LoopContinues(retry_count, max_retries) == retry_count < max_retries

IsRateLimitAny(resp) == resp \in {"429", "error"}

\* `"429" in str(e)`
IsRateLimit(resp) == resp = "429"

RECURSIVE RetryLoop(_, _, _, _, _, _)
RetryLoop(term, script, dates, max_retries, retry_count, n) ==
    IF ~LoopContinues(retry_count, max_retries)
    THEN [frame |-> <<>>, log |-> <<>>]
    ELSE
      LET resp == Response(script, n)
          head == << Event("jitter", term, 0), Event("request", term, 0) >>
      IN  CASE resp \in {"data", "empty"} ->
                 [frame |-> KeywordFrame(term, resp, dates), log |-> head]
            [] IsRateLimit(resp) ->
                 IF retry_count + 1 < max_retries
                 THEN LET wait == Event("backoff", term, Pow2(retry_count + 1) * 60)
                          rest == RetryLoop(term, script, dates, max_retries,
                                            retry_count + 1, n + 1)
                      IN  [frame |-> rest.frame,
                           log |-> head \o <<wait>> \o rest.log]
                 ELSE [frame |-> <<>>, log |-> head]
            [] OTHER ->
                 [frame |-> <<>>, log |-> head \o << Event("pause", term, 5) >>]

\* as KeywordLoop, but a keyword that appends no frame ends the keyword loop
RECURSIVE KeywordLoopStopsAtFailure(_, _, _, _, _)
KeywordLoopStopsAtFailure(keywords, src, dates, max_retries, k) ==
    IF k > Len(keywords)
    THEN [df |-> <<>>, log |-> <<>>]
    ELSE LET one == RetryLoop(keywords[k], src[k], dates, max_retries, 0, 1)
         IN  IF one.frame = <<>>
             THEN [df |-> <<>>, log |-> one.log]
             ELSE LET rest == KeywordLoopStopsAtFailure(keywords, src, dates,
                                                        max_retries, k + 1)
                  IN  [df |-> one.frame \o rest.df, log |-> one.log \o rest.log]

\* the `for term in keywords` loop from keyword k on
RECURSIVE KeywordLoop(_, _, _, _, _)
KeywordLoop(keywords, src, dates, max_retries, k) ==
    IF k > Len(keywords)
    THEN [df |-> <<>>, log |-> <<>>]
    ELSE LET one  == RetryLoop(keywords[k], src[k], dates, max_retries, 0, 1)
             rest == KeywordLoop(keywords, src, dates, max_retries, k + 1)
         IN  [df |-> one.frame \o rest.df, log |-> one.log \o rest.log]

\* f'{year}-01-01' is a date only when `year` is a single year
IsSingleYear(year) == Len(year) = 1

fetch_city_trends(geo_code, keywords, year, max_retries, src) ==
    IF ~IsSingleYear(year)
    THEN \* pd.date_range raises on '(2021, 2022, 2023, 2024)-01-01'
         [raised |-> TRUE, df |-> <<>>, log |-> <<>>]
    ELSE LET y     == year[1]
             dates == date_range(Ordinal(y, 1, 1), Ordinal(y, 12, 31))
             body  == KeywordLoop(keywords, src, dates, max_retries, 1)
         IN  [raised |-> FALSE, df |-> body.df, log |-> body.log]

(***************************************************************************)
(* The durable store: whether trends_checkpoint.csv exists, and its lines, *)
(* each line the sequence of its cells as text.                            *)
(***************************************************************************)
Pad2(n) == IF n < 10 THEN "0" \o ToString(n) ELSE ToString(n)

\* a Timestamp as to_csv writes it
FormatDate(n) == ToString(YearOf(n)) \o "-" \o Pad2(MonthOf(n)) \o "-" \o Pad2(DayOf(n))

\* FormatDate, tabulated once over the dates a frame of the model can hold
DateText == [n \in Ordinal(2023, 1, 1)..Ordinal(2024, 12, 31) |-> FormatDate(n)]

\* lines 163-173: the metadata columns, in the canonical column order, as cells
CsvRows(df, city, year) ==
    [i \in 1..Len(df) |->
        << DateText[df[i].date], city.latitude, city.longitude, city.country,
           city.state_province, ToString(df[i].search_count), city.location_name,
           city.geo_code, df[i].search_term, ToString(year[1]) >>]

to_csvOverwrite(lines, rows, header) ==
    (IF header THEN <<OUTPUT_COLUMNS>> ELSE <<>>) \o rows

\* df.to_csv(OUTPUT_FILE, mode='a', header=write_header, index=False)
to_csv(lines, rows, header) ==
    lines \o (IF header THEN <<OUTPUT_COLUMNS>> ELSE <<>>) \o rows

(***************************************************************************)
(* 2. CHECKPOINT LOGIC                                                     *)
(***************************************************************************)
get_completed_citiesByLocation(file_exists, lines) ==
    IF ~file_exists \/ lines = <<>> THEN {}
    ELSE {lines[i][7] : i \in 2..Len(lines)}

get_completed_citiesNoHeader(file_exists, lines) ==
    IF ~file_exists \/ lines = <<>> THEN {}
    ELSE LET at == {j \in 1..Len(lines[1]) : lines[1][j] = "geo_code"}
         IN  IF at = {} THEN {}
             ELSE {lines[i][CHOOSE k \in at : TRUE] : i \in 1..Len(lines)}

\* pd.read_csv takes the first line as the column names, whatever it holds
get_completed_cities(file_exists, lines) ==
    IF ~file_exists THEN {}
    ELSE IF lines = <<>> THEN {}        \* pd.errors.EmptyDataError
    ELSE LET columns == lines[1]
             at      == {j \in 1..Len(columns) : columns[j] = "geo_code"}
         IN  IF at = {} THEN {}
             ELSE LET j == CHOOSE k \in at : TRUE
                  IN  {lines[i][j] : i \in 2..Len(lines)}

(***************************************************************************)
(* 4. MAIN LOOP                                                            *)
(***************************************************************************)
Min(a, b) == IF a < b THEN a ELSE b

Range(f) == {f[i] : i \in DOMAIN f}

GeoCodes(cities) == {cities[i].geo_code : i \in DOMAIN cities}

\* the catalog rows whose geo_code is not completed, in catalog order
Remaining(completed) ==
    LET NotDone(c) == c.geo_code \notin completed IN SelectSeq(df_cities, NotDone)

CitiesToProcessNoHead(completed) == Remaining(completed)

\* df_cities[~df_cities['geo_code'].isin(completed_geos)].head(MAX_CITIES_PER_RUN)
CitiesToProcess(completed) ==
    LET rest == Remaining(completed)
    IN  SubSeq(rest, 1, Min(MAX_CITIES_PER_RUN, Len(rest)))

\* What the source does over one fetch_city_trends call of the driver: every
\* keyword has data; the first keyword is rate-limited throughout and the others
\* have no signal; every keyword fails with another error.
AllData == [k \in 1..Len(SEARCH_TERMS) |-> [limited |-> 0, settled |-> "data"]]

FirstSkipped ==
    [k \in 1..Len(SEARCH_TERMS) |->
        IF k = 1 THEN [limited |-> MaxRateLimited, settled |-> "error"]
        ELSE [limited |-> 1, settled |-> "empty"]]

AllError == [k \in 1..Len(SEARCH_TERMS) |-> [limited |-> 0, settled |-> "error"]]

SourceScenarios == {AllData, FirstSkipped, AllError}

Procs == {1, 2}

VARIABLES
    YEAR,               \* the configured year setting
    exists,             \* os.path.exists(OUTPUT_FILE)
    store,              \* the lines of OUTPUT_FILE
    runs,               \* driver invocations started so far
    pc,                 \* where each driver process is
    completed_geos,     \* line 140
    cities_to_process,  \* line 144
    row,                \* how many rows of cities_to_process the loop has taken
    df_trends,          \* the rows about to be saved
    write_header,       \* line 177
    successful_cities, failed_cities,
    report,             \* the summary of lines 200-208
    calls,              \* history: the geo_codes fetched in this invocation
    results,            \* history: the outcome of each of them
    absent0,            \* history: the store was absent before the first run
    clean,              \* history: so far every invocation ran to its summary and
                        \* every fetch returned observations that were saved
    fcall, fret,        \* one call of the unit fetcher on its own
    tcall, tret         \* one call of the progress tracker on its own

dvars == <<YEAR, exists, store, runs, pc, completed_geos, cities_to_process, row,
           df_trends, write_header, successful_cities, failed_cities, report,
           calls, results, absent0, clean>>

fvars == <<fcall, fret, tcall, tret>>

vars == <<dvars, fvars>>

NoReport == [completed |-> 0, remaining |-> 0]

ProcessesAtRest ==
    /\ runs = 0
    /\ pc = [p \in Procs |-> "idle"]
    /\ completed_geos = [p \in Procs |-> {}]
    /\ cities_to_process = [p \in Procs |-> <<>>]
    /\ row = [p \in Procs |-> 0]
    /\ df_trends = [p \in Procs |-> <<>>]
    /\ write_header = [p \in Procs |-> FALSE]
    /\ successful_cities = [p \in Procs |-> 0]
    /\ failed_cities = [p \in Procs |-> 0]
    /\ report = [p \in Procs |-> NoReport]
    /\ calls = [p \in Procs |-> <<>>]
    /\ results = [p \in Procs |-> <<>>]
    /\ clean = TRUE

DriverAtRest == store = <<>> /\ ProcessesAtRest

\* The store is absent, or present and empty (zero bytes), before the first run.
Init ==
    /\ YEAR \in YearSettings
    /\ exists \in BOOLEAN
    /\ absent0 = ~exists
    /\ DriverAtRest
    /\ fcall = <<>> /\ fret = <<>>
    /\ tcall = <<>> /\ tret = <<>>

\* lines 135-149: a driver process starts and selects its batch
Begin(p) ==
    /\ pc[p] \in {"idle", "done", "killed"}
    /\ LET completed == get_completed_cities(exists, store)
       IN  /\ completed_geos' = [completed_geos EXCEPT ![p] = completed]
           /\ cities_to_process' = [cities_to_process EXCEPT ![p] = CitiesToProcess(completed)]
    /\ row' = [row EXCEPT ![p] = 0]
    /\ df_trends' = [df_trends EXCEPT ![p] = <<>>]
    /\ write_header' = [write_header EXCEPT ![p] = FALSE]
    /\ successful_cities' = [successful_cities EXCEPT ![p] = 0]
    /\ failed_cities' = [failed_cities EXCEPT ![p] = 0]
    /\ report' = [report EXCEPT ![p] = NoReport]
    /\ calls' = [calls EXCEPT ![p] = <<>>]
    /\ results' = [results EXCEPT ![p] = <<>>]
    /\ pc' = [pc EXCEPT ![p] = "loop"]
    /\ UNCHANGED <<clean, absent0, YEAR, exists, store, fvars>>

\* one of the first MaxRuns invocations
Start(p) ==
    /\ runs < MaxRuns
    /\ runs' = runs + 1
    /\ Begin(p)

\* an invocation after the first MaxRuns: `runs` counts no further
StartAgain(p) ==
    /\ runs = MaxRuns
    /\ UNCHANGED runs
    /\ Begin(p)

\* the city the loop takes next
NextCity(p) == cities_to_process[p][row[p] + 1]

\* fetch_city_trends(geo, SEARCH_TERMS, YEAR) for each geo_code, year setting and
\* source behaviour, tabulated once
FetchTable ==
    [geo \in GeoCodes(df_cities), year \in YearSettings, src \in SourceScenarios |->
        fetch_city_trends(geo, SEARCH_TERMS, year, DEFAULT_MAX_RETRIES, src)]

\* line 159 on the next city, for what the source does during the call
Fetched(p, src) == FetchTable[NextCity(p).geo_code, YEAR, src]

AfterCriticalNoBreak == "loop"

\* where control goes from the `except Exception` handler: `break` leaves the loop
AfterCritical == "summary"

\* lines 193-198
CriticalFailure(p) ==
    /\ failed_cities' = [failed_cities EXCEPT ![p] = @ + 1]
    /\ pc' = [pc EXCEPT ![p] = AfterCritical]

TakeCity(p, outcome) ==
    /\ row' = [row EXCEPT ![p] = @ + 1]
    /\ calls' = [calls EXCEPT ![p] = Append(@, NextCity(p).geo_code)]
    /\ results' = [results EXCEPT ![p] = Append(@, outcome)]

HasNextCity(p) == pc[p] = "loop" /\ row[p] < Len(cities_to_process[p])

\* lines 151-159, 193-198: fetch_city_trends raises
FetchRaises(p) ==
    /\ HasNextCity(p)
    /\ \E src \in SourceScenarios : Fetched(p, src).raised
    /\ TakeCity(p, "critical")
    /\ CriticalFailure(p)
    /\ clean' = FALSE
    /\ UNCHANGED <<absent0, YEAR, exists, store, runs, completed_geos, cities_to_process,
                   df_trends, write_header, successful_cities, report, fvars>>

\* as FetchEmpty, but the city is marked done with a placeholder row
FetchEmptyMarksDone(p) ==
    /\ HasNextCity(p)
    /\ \E src \in SourceScenarios :
          LET r == Fetched(p, src)
          IN  /\ ~r.raised /\ r.df = <<>>
              /\ df_trends' = [df_trends EXCEPT ![p] = r.df]
    /\ TakeCity(p, "empty")
    /\ store' = to_csv(store,
                       CsvRows(<<[date |-> Ordinal(YEAR[1], 1, 1), search_term |-> "",
                                  search_count |-> 0]>>, NextCity(p), YEAR),
                       ~exists)
    /\ exists' = TRUE
    /\ failed_cities' = [failed_cities EXCEPT ![p] = @ + 1]
    /\ clean' = FALSE
    /\ UNCHANGED <<absent0, YEAR, runs, pc, completed_geos, cities_to_process,
                   write_header, successful_cities, report, fvars>>

\* lines 151-161, 182-191: the fetcher returns no observation
FetchEmpty(p) ==
    /\ HasNextCity(p)
    /\ \E src \in SourceScenarios :
          LET r == Fetched(p, src)
          IN  /\ ~r.raised /\ r.df = <<>>
              /\ df_trends' = [df_trends EXCEPT ![p] = r.df]
    /\ TakeCity(p, "empty")
    /\ failed_cities' = [failed_cities EXCEPT ![p] = @ + 1]
    /\ clean' = FALSE
    /\ UNCHANGED <<absent0, YEAR, exists, store, runs, pc, completed_geos, cities_to_process,
                   write_header, successful_cities, report, fvars>>

\* lines 151-177: the fetcher returns observations; metadata attached, and the
\* header decision taken from the file's existence
FetchData(p) ==
    /\ HasNextCity(p)
    /\ \E src \in SourceScenarios :
          LET r == Fetched(p, src)
          IN  /\ ~r.raised /\ r.df # <<>>
              /\ df_trends' = [df_trends EXCEPT ![p] = CsvRows(r.df, NextCity(p), YEAR)]
    /\ TakeCity(p, "fetched")
    /\ write_header' = [write_header EXCEPT ![p] = ~exists]
    /\ pc' = [pc EXCEPT ![p] = "save"]
    /\ UNCHANGED <<clean, absent0, YEAR, exists, store, runs, completed_geos, cities_to_process,
                   successful_cities, failed_cities, report, fvars>>

SetLast(s, v) == [s EXCEPT ![Len(s)] = v]

\* lines 178-191: the rows are appended
Save(p) ==
    /\ pc[p] = "save"
    /\ store' = to_csv(store, df_trends[p], write_header[p])
    /\ exists' = TRUE
    /\ successful_cities' = [successful_cities EXCEPT ![p] = @ + 1]
    /\ results' = [results EXCEPT ![p] = SetLast(@, "saved")]
    /\ pc' = [pc EXCEPT ![p] = "loop"]
    /\ UNCHANGED <<clean, absent0, YEAR, runs, completed_geos, cities_to_process, row, df_trends,
                   write_header, failed_cities, report, calls, fvars>>

\* lines 178, 193-198: to_csv raises (the file cannot be opened for appending)
SaveRaises(p) ==
    /\ pc[p] = "save"
    /\ results' = [results EXCEPT ![p] = SetLast(@, "critical")]
    /\ CriticalFailure(p)
    /\ clean' = FALSE
    /\ UNCHANGED <<absent0, YEAR, exists, store, runs, completed_geos, cities_to_process, row,
                   df_trends, write_header, successful_cities, report, calls, fvars>>

\* lines 200-208, after the loop ran out or broke
Summary(p) ==
    /\ \/ pc[p] = "loop" /\ row[p] = Len(cities_to_process[p])
       \/ pc[p] = "summary"
    /\ LET done == Cardinality(get_completed_cities(exists, store))
       IN  report' = [report EXCEPT ![p] =
                        [completed |-> done, remaining |-> Len(df_cities) - done]]
    /\ pc' = [pc EXCEPT ![p] = "done"]
    /\ UNCHANGED <<clean, absent0, YEAR, exists, store, runs, completed_geos, cities_to_process, row,
                   df_trends, write_header, successful_cities, failed_cities,
                   calls, results, fvars>>

\* the driver process is terminated from outside
Kill(p) ==
    /\ pc[p] \in {"loop", "save", "summary"}
    /\ pc' = [pc EXCEPT ![p] = "killed"]
    /\ clean' = FALSE
    /\ UNCHANGED <<absent0, YEAR, exists, store, runs, completed_geos, cities_to_process, row,
                   df_trends, write_header, successful_cities, failed_cities, report,
                   calls, results, fvars>>

\* Sequential invocations: one driver process at a time.
Next ==
    \/ Start(1)
    \/ FetchRaises(1)
    \/ FetchEmpty(1)
    \/ FetchData(1)
    \/ Save(1)
    \/ SaveRaises(1)
    \/ Summary(1)
    \/ Kill(1)

Spec == Init /\ [][Next]_vars

\* the steps a started driver process takes by itself
DriverStep ==
    \/ FetchRaises(1)
    \/ FetchEmpty(1)
    \/ FetchData(1)
    \/ Save(1)
    \/ SaveRaises(1)
    \/ Summary(1)

\* no trends_checkpoint.csv yet
InitFresh ==
    /\ YEAR \in YearSettings
    /\ exists = FALSE
    /\ absent0 = TRUE
    /\ DriverAtRest
    /\ fcall = <<>> /\ fret = <<>>
    /\ tcall = <<>> /\ tret = <<>>

\* A started process keeps running: every sleep and every request (timeout
\* (10, 25)) returns, so its next step is eventually taken unless it is killed.
SpecRunning == InitFresh /\ [][Next]_vars /\ WF_vars(DriverStep)

\* The driver re-invoked without end by an external scheduler, nothing raising
\* and no process killed.
NextRepeat ==
    \/ Start(1)
    \/ StartAgain(1)
    \/ FetchEmpty(1)
    \/ FetchData(1)
    \/ Save(1)
    \/ Summary(1)

InitRepeat ==
    /\ YEAR = <<2023>>
    /\ exists = FALSE
    /\ absent0 = TRUE
    /\ DriverAtRest
    /\ fcall = <<>> /\ fret = <<>>
    /\ tcall = <<>> /\ tret = <<>>

SpecRepeat == InitRepeat /\ [][NextRepeat]_vars /\ WF_vars(NextRepeat)

\* A store that holds rows of an entity the catalog does not list.
FormerCity ==
    [geo_code |-> "US-TX-623", location_name |-> "Dallas", country |-> "US",
     state_province |-> "TX", latitude |-> "32.78", longitude |-> "-96.8"]

FormerRows ==
    CsvRows(<< [date |-> Ordinal(2023, 1, 1), search_term |-> SEARCH_TERMS[1],
                search_count |-> 0] >>, FormerCity, <<2023>>)

InitForeign ==
    /\ YEAR \in YearSettings
    /\ exists = TRUE
    /\ absent0 = FALSE
    /\ store = <<OUTPUT_COLUMNS>> \o FormerRows
    /\ ProcessesAtRest
    /\ fcall = <<>> /\ fret = <<>>
    /\ tcall = <<>> /\ tret = <<>>

SpecForeign == InitForeign /\ [][Next]_vars

\* Two driver processes on the same store, each step of either interleaved.
InitConc ==
    /\ YEAR = <<2023>>
    /\ exists = FALSE
    /\ absent0 = TRUE
    /\ DriverAtRest
    /\ fcall = <<>> /\ fret = <<>>
    /\ tcall = <<>> /\ tret = <<>>

NextConc ==
    \E p \in Procs :
        \/ Start(p)
        \/ FetchEmpty(p)
        \/ FetchData(p)
        \/ Save(p)
        \/ Summary(p)

SpecConc == InitConc /\ [][NextConc]_vars

(***************************************************************************)
(* One call of the unit fetcher on inputs drawn from bounded sets.         *)
(***************************************************************************)
FetchYears == {<<2023>>, <<2024>>}

FetchKeywords == {SubSeq(SEARCH_TERMS, 1, n) : n \in 1..Len(SEARCH_TERMS)}

FetchInputs ==
    UNION { [geo_code : {df_cities[1].geo_code}, keywords : {kw}, year : FetchYears,
             max_retries : 0..DEFAULT_MAX_RETRIES, src : [1..Len(kw) -> Scripts]]
            : kw \in FetchKeywords }

InitFetch ==
    /\ fcall \in FetchInputs /\ fret = <<>>
    /\ tcall = <<>> /\ tret = <<>>
    /\ YEAR = <<2023>> /\ exists = FALSE /\ absent0 = TRUE /\ DriverAtRest

FetchCall ==
    /\ fret = <<>>
    /\ fret' = << fetch_city_trends(fcall.geo_code, fcall.keywords, fcall.year,
                                    fcall.max_retries, fcall.src) >>
    /\ UNCHANGED <<fcall, tcall, tret, dvars>>

NextFetch == FetchCall

FetchSpec == InitFetch /\ [][NextFetch]_vars

(***************************************************************************)
(* One call of the progress tracker on a store drawn from a bounded set:   *)
(* no file, a zero-byte file, or a table of up to MaxStoreRows rows under  *)
(* a header line, or with no header line at all.                           *)
(***************************************************************************)
\* header lines: the canonical one, one with geo_code elsewhere, one without it
StoreLayouts ==
    { OUTPUT_COLUMNS,
      <<"geo_code", "date", "search_count">>,
      <<"date", "location", "search_count">> }

\* the cell of a row about `city` under a column name
CellOf(city, column) ==
    CASE column = "geo_code" -> city.geo_code
      [] column = "location" -> city.location_name
      [] column = "country"  -> city.country
      [] column = "state"    -> city.state_province
      [] column = "latitude" -> city.latitude
      [] column = "longitude" -> city.longitude
      [] column = "search_term" -> SEARCH_TERMS[1]
      [] column = "date" -> "2023-01-01"
      [] column = "year" -> "2023"
      [] OTHER -> "0"

RowOf(city, layout) == [j \in 1..Len(layout) |-> CellOf(city, layout[j])]

CityLists == UNION {[1..n -> Range(df_cities)] : n \in 0..MaxStoreRows}

TrackerInputs ==
    [kind : {"absent", "empty"}, layout : {<<>>}, cities : {<<>>}]
    \cup [kind : {"table"}, layout : StoreLayouts, cities : CityLists]
    \cup [kind : {"headerless"}, layout : {OUTPUT_COLUMNS}, cities : CityLists \ {<<>>}]

\* the lines of the file an input stands for
LinesOf(in) ==
    LET rows == [i \in 1..Len(in.cities) |-> RowOf(in.cities[i], in.layout)]
    IN  IF in.kind = "table" THEN <<in.layout>> \o rows ELSE rows

InitTracker ==
    /\ tcall \in TrackerInputs /\ tret = <<>>
    /\ fcall = <<>> /\ fret = <<>>
    /\ YEAR = <<2023>> /\ exists = FALSE /\ absent0 = TRUE /\ DriverAtRest

TrackerCall ==
    /\ tret = <<>>
    /\ tret' = << get_completed_cities(tcall.kind # "absent", LinesOf(tcall)) >>
    /\ UNCHANGED <<tcall, fcall, fret, dvars>>

NextTracker == TrackerCall

TrackerSpec == InitTracker /\ [][NextTracker]_vars

(***************************************************************************)
(* Vocabulary of the properties.                                           *)
(***************************************************************************)
\* the table rows of the store as read_csv sees them: every line after the first
TableRows == 2..Len(store)

\* (entity code, keyword, week) of a stored row
RowKey(line) == <<line[8], line[9], line[1]>>

IsPrefix(s, t) == Len(s) <= Len(t) /\ SubSeq(t, 1, Len(s)) = s

\* the geo_codes of this invocation's calls that ended with `outcome`
CallsEnding(p, outcome) == {calls[p][k] : k \in {i \in DOMAIN results[p] : results[p][i] = outcome}}

\* the batch entries the loop has not taken yet
NotStarted(p) ==
    {cities_to_process[p][k].geo_code : k \in (row[p] + 1)..Len(cities_to_process[p])}

LastResult(p) == IF results[p] = <<>> THEN "none" ELSE results[p][Len(results[p])]

\* a step in which process p takes a city and its handling ends with `outcome`
HandledWith(p, outcome) ==
    /\ results'[p] # results[p]
    /\ pc[p] \in {"loop", "save"}
    /\ results'[p] # <<>>
    /\ results'[p][Len(results'[p])] = outcome

\* the number of network attempts a fetch made for a keyword
Requests(log, term) ==
    Cardinality({i \in DOMAIN log : log[i].op = "request" /\ log[i].term = term})

RowsOf(df, term) == LET Is(r) == r.search_term = term IN SelectSeq(df, Is)

\* the source answers "429" to every attempt
AlwaysRateLimited(script) == \A n \in 1..MaxRateLimited : Response(script, n) = "429"

SundaysOfYear(y) == {n \in Ordinal(y, 1, 1)..Ordinal(y, 12, 31) : Weekday(n) = 6}

(***************************************************************************)
(* Properties.                                                             *)
(***************************************************************************)

\* C1: starting from an absent store, after any number of sequential
\* invocations no two rows of the store share (entity code, keyword, week).
C1_NoDuplicateRows ==
    absent0 =>
        \A i, j \in TableRows : i < j => RowKey(store[i]) # RowKey(store[j])

\* C1 witness: a second invocation has appended rows to a store the first
\* invocation created.
C1_Witness ==
    /\ absent0 /\ runs = 2 /\ pc[1] = "done"
    /\ completed_geos[1] # {}
    /\ CallsEnding(1, "saved") # {}

\* C2 (as claimed): when an invocation is terminated right after appending an
\* entity, the completed-set computed by the next invocation contains every
\* entity that invocation appended and none of the batch entries it had not
\* started.
C2_CrashDurability ==
    [][ (pc[1] = "killed" /\ pc'[1] = "loop" /\ LastResult(1) = "saved")
          => /\ CallsEnding(1, "saved") \subseteq completed_geos'[1]
             /\ NotStarted(1) \cap completed_geos'[1] = {} ]_vars

\* C3: when the source answers 429 to every attempt of a keyword, the fetch
\* makes exactly max_retries attempts for it, yields no observation for it and
\* returns normally; when that is so for every keyword the result is empty.
C3_RetryBound ==
    fret # <<>> =>
        LET r  == fret[1]
            kw == fcall.keywords
        IN  /\ \A k \in DOMAIN kw :
                  AlwaysRateLimited(fcall.src[k]) =>
                      /\ Requests(r.log, kw[k]) = fcall.max_retries
                      /\ RowsOf(r.df, kw[k]) = <<>>
                      /\ ~r.raised
            /\ (\A k \in DOMAIN kw : AlwaysRateLimited(fcall.src[k])) => r.df = <<>>

\* C3 witness: two keywords, both rate-limited throughout, three attempts each.
C3_Witness ==
    /\ fret # <<>>
    /\ Len(fcall.keywords) = 2 /\ fcall.max_retries = 3
    /\ \A k \in DOMAIN fcall.keywords : AlwaysRateLimited(fcall.src[k])
    /\ Cardinality({i \in DOMAIN fret[1].log : fret[1].log[i].op = "request"}) = 6

\* C4: for a keyword to which the source returns an explicit empty result, the
\* fetch emits exactly one observation per Sunday of the target year, each of
\* value zero and of that keyword (53 for 2023), and no other for that keyword.
C4_ZeroFill ==
    fret # <<>> =>
        LET r  == fret[1]
            kw == fcall.keywords
            y  == fcall.year[1]
        IN  \A k \in DOMAIN kw :
               LET n    == Requests(r.log, kw[k])
                   rows == RowsOf(r.df, kw[k])
               IN  (n >= 1 /\ Response(fcall.src[k], n) = "empty") =>
                      /\ Len(rows) = Cardinality(SundaysOfYear(y))
                      /\ {rows[i].date : i \in DOMAIN rows} = SundaysOfYear(y)
                      /\ \A i \in DOMAIN rows : rows[i].search_count = 0
                      /\ y = 2023 => Len(rows) = 53

\* C4 witness: a 2023 fetch whose second keyword is rate-limited once and then
\* answered with an empty result, zero-filled from 2023-01-01 to 2023-12-31.
C4_Witness ==
    /\ fret # <<>>
    /\ fcall.year = <<2023>> /\ Len(fcall.keywords) = 2 /\ fcall.max_retries = 2
    /\ fcall.src[2] = [limited |-> 1, settled |-> "empty"]
    /\ LET rows == RowsOf(fret[1].df, fcall.keywords[2])
       IN  /\ Len(rows) = 53
           /\ FormatDate(rows[1].date) = "2023-01-01"
           /\ FormatDate(rows[53].date) = "2023-12-31"

\* C5 (as claimed): with more remaining work than the quota, exactly quota
\* entities are attempted in one invocation.
C5_ExactlyQuota ==
    (pc[1] = "done" /\ Len(Remaining(completed_geos[1])) > MAX_CITIES_PER_RUN)
        => Len(calls[1]) = MAX_CITIES_PER_RUN

\* C5: with more remaining work than the quota, an invocation that reaches its
\* summary has attempted the first entries of the remaining work in catalog
\* order, at most quota of them, and exactly quota when no critical failure
\* stopped it.
C5_QuotaEnforced ==
    (pc[1] = "done" /\ Len(Remaining(completed_geos[1])) > MAX_CITIES_PER_RUN)
        => LET rest == Remaining(completed_geos[1])
           IN  /\ Len(calls[1]) <= MAX_CITIES_PER_RUN
               /\ \A k \in DOMAIN calls[1] : calls[1][k] = rest[k].geo_code
               /\ "critical" \notin Range(results[1])
                     => Len(calls[1]) = MAX_CITIES_PER_RUN

\* C5 witness: an invocation with three remaining entities attempted two.
C5_Witness ==
    /\ pc[1] = "done"
    /\ Len(Remaining(completed_geos[1])) > MAX_CITIES_PER_RUN
    /\ "critical" \notin Range(results[1])
    /\ Len(calls[1]) = MAX_CITIES_PER_RUN

\* C6: when the fetcher returns no observation for an entity, the driver writes
\* nothing, counts it failed and not successful, the entity is not in the
\* completed-set afterwards, and it is in the remaining work of the next
\* invocation.
C6_EmptyResult ==
    /\ [][ HandledWith(1, "empty") =>
             /\ store' = store /\ exists' = exists
             /\ failed_cities'[1] = failed_cities[1] + 1
             /\ successful_cities'[1] = successful_cities[1]
             /\ calls'[1][Len(calls'[1])]
                   \notin get_completed_cities(exists', store') ]_vars
    /\ [][ (pc[1] \in {"done", "killed"} /\ pc'[1] = "loop")
             => CallsEnding(1, "empty") \subseteq GeoCodes(Remaining(completed_geos'[1])) ]_vars

\* C6 witness: an invocation starts after one in which an entity came back
\* empty while another was saved.
C6_Witness ==
    /\ runs = 2 /\ pc[1] = "loop" /\ row[1] = 0
    /\ store # <<>>
    /\ Len(cities_to_process[1]) = 2
    /\ completed_geos[1] = {df_cities[2].geo_code}

\* C7: on a critical failure at entity e no later entity of the batch is
\* fetched in that invocation, the store is left as it was, e is counted
\* failed, and e is not in the completed-set.
C7_CriticalFailure ==
    /\ [](\A k \in DOMAIN results[1] : results[1][k] = "critical" => k = Len(results[1]))
    /\ [](LastResult(1) = "critical" => pc[1] \in {"summary", "done", "killed"})
    /\ [][ HandledWith(1, "critical") =>
             /\ store' = store /\ exists' = exists
             /\ failed_cities'[1] = failed_cities[1] + 1
             /\ successful_cities'[1] = successful_cities[1]
             /\ calls'[1][Len(calls'[1])]
                   \notin get_completed_cities(exists', store') ]_vars
    /\ [][ (LastResult(1) = "critical" /\ pc'[1] # "loop")
             => store' = store /\ calls'[1] = calls[1] ]_vars

\* C7 witness: the second entity of a batch failed critically after the first
\* was saved; the summary is reached with the third never fetched.
C7_Witness ==
    /\ pc[1] = "done"
    /\ results[1] = <<"saved", "critical">>
    /\ store # <<>>
    /\ failed_cities[1] = 1 /\ successful_cities[1] = 1

\* C8: every step leaves the store's earlier content as a prefix of its new
\* content, and never removes the file.
C8_AppendOnly ==
    [][ IsPrefix(store, store') /\ (exists => exists') ]_vars

\* C8 witness: rows of two entities, appended one after the other.
C8_Witness ==
    /\ Cardinality({store[i][8] : i \in TableRows}) >= 2
    /\ store[1] = OUTPUT_COLUMNS

\* C9 (as claimed): from an absent or an empty store, a non-empty store has the
\* canonical header as its first line and nowhere else.
C9_HeaderOnce ==
    store # <<>> =>
        /\ store[1] = OUTPUT_COLUMNS
        /\ \A i \in TableRows : store[i] # OUTPUT_COLUMNS

\* C10 (as claimed): whatever the interleaving of two invocations, the store
\* holds exactly one header row, on its first line.
C10_OneCoherentTable ==
    store # <<>> =>
        /\ Cardinality({i \in DOMAIN store : store[i] = OUTPUT_COLUMNS}) = 1
        /\ Head(store) = OUTPUT_COLUMNS

CompletedNow == get_completed_cities(exists, store)

\* the dates of the stored rows of an entity and a keyword
StoredDates(geo, term) ==
    {store[i][1] : i \in {k \in TableRows : store[k][8] = geo /\ store[k][9] = term}}

Max(a, b) == IF a > b THEN a ELSE b

\* C12: the completed-set never shrinks; an entity enters it only in the step
\* that appends the observations its fetch returned; an empty result or a
\* critical failure leaves the completed-set as it is.
C12_OnlySuccessCompletes ==
    [][ LET before == get_completed_cities(exists, store)
            after  == get_completed_cities(exists', store')
        IN  /\ before \subseteq after
            /\ after # before =>
                  /\ HandledWith(1, "saved")
                  /\ df_trends[1] # <<>>
                  /\ after \ before = {calls[1][Len(calls[1])]}
            /\ (HandledWith(1, "empty") \/ HandledWith(1, "critical")) => after = before
      ]_vars

\* C12 witness: in one invocation an entity came back empty and a later one
\* was saved: only the saved one is completed.
C12_Witness ==
    /\ pc[1] = "done"
    /\ results[1] = <<"empty", "saved">>
    /\ CompletedNow = {calls[1][2]}

\* C13 (as claimed): for every entity of the completed-set and every configured
\* keyword the store holds one observation for every week of the target year.
C13_FullCoverage ==
    \A geo \in CompletedNow : \A k \in DOMAIN SEARCH_TERMS :
        StoredDates(geo, SEARCH_TERMS[k])
            = {DateText[n] : n \in SundaysOfYear(YEAR[1])}

\* C14 (as claimed): when every fetch returned observations and nothing failed,
\* each finished invocation has completed quota more entities until none
\* remains, and an invocation with nothing remaining attempts no entity.
C14_CatalogExhausted ==
    (clean /\ pc[1] = "done") =>
        /\ Len(Remaining(CompletedNow))
              = Max(0, Len(df_cities) - runs * MAX_CITIES_PER_RUN)
        /\ Remaining(completed_geos[1]) = <<>> => calls[1] = <<>>

\* C15 (as claimed): at the summary succeeded + failed is the number of
\* entities attempted, and the reported remaining count is the number of
\* catalog entities not in the completed-set, whatever the store holds.
C15_Report ==
    pc[1] = "done" =>
        /\ successful_cities[1] + failed_cities[1] = Len(calls[1])
        /\ report[1].completed = Cardinality(CompletedNow)
        /\ report[1].remaining = Cardinality(GeoCodes(df_cities) \ CompletedNow)

\* the events of a log that belong to a keyword, in order
KeywordLog(log, term) == LET Is(e) == e.term = term IN SelectSeq(log, Is)

\* the backoff waits of a keyword, in order
Backoffs(log, term) ==
    LET Is(e) == e.term = term /\ e.op = "backoff" IN SelectSeq(log, Is)

\* the positions of a log that belong to a keyword
PositionsOf(log, term) == {i \in DOMAIN log : log[i].term = term}

\* C16: a rate-limited attempt is followed by a wait of 2^attempt * 60 seconds
\* (120, 240, ...: successive waits double) and a further attempt, unless it
\* was attempt number max_retries, which is followed by no wait; a keyword is
\* requested at most max_retries times.
C16_ExponentialBackoff ==
    fret # <<>> =>
        LET r  == fret[1]
            kw == fcall.keywords
        IN  \A k \in DOMAIN kw :
               LET n       == Requests(r.log, kw[k])
                   klog    == KeywordLog(r.log, kw[k])
                   w       == Backoffs(r.log, kw[k])
                   limited == Cardinality({j \in 1..n : Response(fcall.src[k], j) = "429"})
               IN  /\ n <= fcall.max_retries
                   /\ Len(w) = IF n >= 1 /\ limited = n THEN limited - 1 ELSE limited
                   /\ \A i \in DOMAIN w : w[i].secs = (2 ^ i) * 60
                   /\ \A i \in DOMAIN klog :
                         klog[i].op = "backoff" =>
                            /\ klog[i - 1].op = "request"
                            /\ i < Len(klog) /\ klog[i + 1].op = "jitter"

\* C16 witness: three rate-limited attempts with max_retries = 3: waits of 120
\* and 240 seconds, and none after the third attempt.
C16_Witness ==
    /\ fret # <<>>
    /\ fcall.keywords = <<SEARCH_TERMS[1]>> /\ fcall.max_retries = 3
    /\ fcall.src[1].limited = 3
    /\ fret[1].log = << Event("jitter", SEARCH_TERMS[1], 0), Event("request", SEARCH_TERMS[1], 0),
                        Event("backoff", SEARCH_TERMS[1], 120),
                        Event("jitter", SEARCH_TERMS[1], 0), Event("request", SEARCH_TERMS[1], 0),
                        Event("backoff", SEARCH_TERMS[1], 240),
                        Event("jitter", SEARCH_TERMS[1], 0), Event("request", SEARCH_TERMS[1], 0) >>

\* C17: an attempt that fails with an error other than a rate limit is the
\* last attempt of its keyword, whatever number of rate-limited attempts came
\* before it: the keyword ends with the fixed pause, contributes no
\* observation, and the fetch does not raise.
C17_OtherErrorNotRetried ==
    fret # <<>> =>
        LET r  == fret[1]
            kw == fcall.keywords
        IN  \A k \in DOMAIN kw :
               LET n    == Requests(r.log, kw[k])
                   klog == KeywordLog(r.log, kw[k])
               IN  \A j \in 1..n :
                      Response(fcall.src[k], j) = "error" =>
                          /\ j = n
                          /\ j = fcall.src[k].limited + 1
                          /\ klog[Len(klog)] = Event("pause", kw[k], 5)
                          /\ RowsOf(r.df, kw[k]) = <<>>
                          /\ ~r.raised

\* C17 witness: the first keyword is rate-limited twice and then fails with
\* another error on its third attempt; the second keyword has data.
C17_Witness ==
    /\ fret # <<>>
    /\ Len(fcall.keywords) = 2 /\ fcall.max_retries = 3
    /\ fcall.src[1] = [limited |-> 2, settled |-> "error"]
    /\ fcall.src[2] = [limited |-> 0, settled |-> "data"]
    /\ Requests(fret[1].log, fcall.keywords[1]) = 3
    /\ RowsOf(fret[1].df, fcall.keywords[1]) = <<>>
    /\ Len(fret[1].df) = 53

\* the source answers the keyword within max_retries attempts, with data or
\* with an empty result
Answered(script, max_retries) ==
    script.limited < max_retries /\ script.settled \in {"data", "empty"}

\* C18: the fetch does not raise; every keyword is attempted, as often as its
\* own answers require and whatever happened to the keywords before it; the
\* result holds, in keyword order, the year of observations of each keyword
\* that was answered with data or an empty result, and nothing of the others.
C18_KeywordIsolation ==
    fret # <<>> =>
        LET r     == fret[1]
            kw    == fcall.keywords
            y     == fcall.year[1]
            dates == date_range(Ordinal(y, 1, 1), Ordinal(y, 12, 31))
        IN  /\ ~r.raised
            /\ \A k \in DOMAIN kw :
                  /\ Requests(r.log, kw[k])
                        = Min(fcall.src[k].limited + 1, fcall.max_retries)
                  /\ RowsOf(r.df, kw[k])
                        = IF Answered(fcall.src[k], fcall.max_retries)
                          THEN KeywordFrame(kw[k], fcall.src[k].settled, dates)
                          ELSE <<>>
            /\ \A i \in DOMAIN r.df : \E k \in DOMAIN kw : r.df[i].search_term = kw[k]
            /\ \A k1, k2 \in DOMAIN kw :
                  k1 < k2 =>
                     /\ \A i, j \in DOMAIN r.df :
                           (r.df[i].search_term = kw[k1] /\ r.df[j].search_term = kw[k2])
                              => i < j
                     /\ \A i \in PositionsOf(r.log, kw[k1]) :
                           \A j \in PositionsOf(r.log, kw[k2]) : i < j

\* C18 witness: the first keyword exhausts its retries, the second is then
\* rate-limited once and answered with data: the result is the second
\* keyword's year alone.
C18_Witness ==
    /\ fret # <<>>
    /\ Len(fcall.keywords) = 2 /\ fcall.max_retries = 2
    /\ fcall.src[1].limited = 2
    /\ fcall.src[2] = [limited |-> 1, settled |-> "data"]
    /\ Requests(fret[1].log, fcall.keywords[1]) = 2
    /\ Requests(fret[1].log, fcall.keywords[2]) = 2
    /\ Len(fret[1].df) = 53
    /\ \A i \in DOMAIN fret[1].df : fret[1].df[i].search_term = fcall.keywords[2]

\* C19 (as claimed): under unbounded repeated invocation every catalog entity
\* that is not completed is eventually attempted by some invocation.
C19_EveryEntityAttempted ==
    \A i \in DOMAIN df_cities :
        (df_cities[i].geo_code \notin CompletedNow)
            ~> (df_cities[i].geo_code \in Range(calls[1]))

\* a driver process is inside an invocation
Running == pc[1] \in {"loop", "save", "summary"}

\* C20: every started invocation ends, with its summary reported unless the
\* process was terminated from outside; it attempts at most quota entities,
\* and every fetch it can make requests each keyword at most max_retries times.
C20_Terminates ==
    /\ Running ~> (pc[1] = "killed" \/ (pc[1] = "done" /\ report[1] # NoReport))
    /\ [](Len(calls[1]) <= MAX_CITIES_PER_RUN)
    /\ [](\A geo \in GeoCodes(df_cities), src \in SourceScenarios :
             \A k \in DOMAIN SEARCH_TERMS :
                Requests(FetchTable[geo, YEAR, src].log, SEARCH_TERMS[k])
                    <= DEFAULT_MAX_RETRIES)

\* C20 witness: an invocation that attempted quota entities and saved at least
\* one of them has reported its summary.
C20_Witness ==
    /\ pc[1] = "done" /\ report[1] # NoReport
    /\ Len(calls[1]) = MAX_CITIES_PER_RUN
    /\ "saved" \in Range(results[1])

====
